---- MODULE Spec2Model ----
(***************************************************************************)
(* Model of the upload widget: the job-status stream client,               *)
(* frontend/src/hooks/useWebSocket.js, and the upload hook that hands it   *)
(* the job id, frontend/src/hooks/useProductUpload.js.                     *)
(*                                                                         *)
(* The hook keeps React state (logs, progress, total, percentage, status,  *)
(* error) and four refs (wsRef, reconnectTimeoutRef, statusRef,            *)
(* shouldReconnectRef).  The refs live as long as the component, so they   *)
(* are shared by the effect instances of successive job ids.  The browser  *)
(* side is the set of WebSocket objects the hook created (each keeps the   *)
(* callbacks of the effect instance that created it) and the timers it     *)
(* started with setTimeout.                                                *)
(*                                                                         *)
(* Every callback is one action.  State setters are applied in call order, *)
(* so the value a later render shows is the value the variables hold.      *)
(* statusRef is written by a passive effect that runs after a render; the  *)
(* render can be deferred behind browser tasks that are already queued, so *)
(* SyncStatusRef is an action of its own.  The commit of a new job id      *)
(* flushes the passive effects in order: cleanup of the previous effect,   *)
(* the statusRef effect, then the new effect body.                         *)
(***************************************************************************)
EXTENDS Integers, Sequences, FiniteSets, TLC

\* ---------------------------------------------------------------- bounds
MaxJobs == 2
MaxSockets == 3
MaxTimers == 2
MaxLogs == 3
\* the bounds of SpecChurn, which follows a third job id
ChurnJobs == 3
ChurnSockets == 4
\* the bounds of SpecUpload: calls of uploadFile, job ids, sockets
MaxCalls == 2
UploadJobs == 2
UploadSockets == 2

\* ------------------------------------------------------------- constants
\* setTimeout(..., 3000): the delay in seconds; Tick advances time by 1 s
ReconnectDelay == 3

Null == "null"
Undefined == -1000
NoJob == 0

VARIABLES
    jobId,                \* the hook's argument: 0 is null, 1..MaxJobs a job id
    mounted,              \* the component owning the hook is mounted
    pc,                   \* "idle", or "mount": cleanup ran, effect body is next
    logs, progress, total, percentage, status, error,
    wsRef, reconnectTimeoutRef, statusRef, shouldReconnectRef,
    sockets,              \* WebSocket objects created by connect, by id
    timers,               \* timers created by setTimeout, by id
    wsUrlOk,              \* whether `new WebSocket(wsUrl)` accepts the URL
    lastJob,              \* the highest job id handed to the hook so far
    terminalJobs,         \* history: jobs for which a Complete/Error frame was handled
    last,                 \* history: the step taken last
    uploading,            \* useProductUpload: the uploading flag
    uploadError,          \* useProductUpload: its error (uploadError in the widget)
    calls                 \* the calls of uploadFile, by id: position and locals

uploadVars == <<uploading, uploadError, calls>>

vars == <<jobId, mounted, pc, logs, progress, total, percentage, status, error,
          wsRef, reconnectTimeoutRef, statusRef, shouldReconnectRef,
          sockets, timers, wsUrlOk, lastJob, terminalJobs, last,
          uploading, uploadError, calls>>

\* ---------------------------------------------------------------- frames
\* JSON payloads of the status channel.  "malformed" is a payload that
\* JSON.parse rejects or that carries no known type.
Frame(t, m, p, n, pct) ==
    [type |-> t, message |-> m, processed |-> p, total |-> n, percentage |-> pct]

LogFrame == Frame("log", "row", Undefined, Undefined, Undefined)
ProgressFrame == Frame("progress", "half", 5, 10, 50)
CompleteFrame == Frame("complete", "done", 10, 10, Undefined)
ErrorFrame == Frame("error", "boom", Undefined, Undefined, Undefined)
MalformedFrame == Frame("malformed", "undefined", Undefined, Undefined, Undefined)

Frames == {LogFrame, ProgressFrame, CompleteFrame, ErrorFrame, MalformedFrame}

\* Frames whose numbers are out of range or missing; the status channel
\* gives no guarantee about the values it carries.
OverFrame == Frame("progress", "over", 10, 10, 150)
UnderFrame == Frame("progress", "under", 1, 10, -5)
NoTotalFrame == Frame("complete", "done", 7, Undefined, Undefined)
WideFrames == Frames \cup {OverFrame, UnderFrame, NoTotalFrame}

\* no frame: the step was not a message
NoFrame == Frame("none", "undefined", Undefined, Undefined, Undefined)

\* `x || 0`
OrZero(x) == IF x = Undefined \/ x = 0 THEN 0 ELSE x

\* `a || b` for numbers
OrElse(a, b) == IF a = Undefined \/ a = 0 THEN b ELSE a

\* ------------------------------------------------- files and their bytes
\* A file name is a sequence of characters, a file's content a sequence of
\* bytes, a text a sequence of code points.

\* String.prototype.endsWith
EndsWith(name, suffix) ==
    /\ Len(suffix) <= Len(name)
    /\ SubSeq(name, Len(name) - Len(suffix) + 1, Len(name)) = suffix

\* A validation that asks for an extension only.
IsCsvNameAnyExt(name) == \E i \in 1..Len(name) : name[i] = "."

\* uploadFile's file type validation: the name passes
IsCsvName(name) ==
    EndsWith(name, <<".", "c", "s", "v">>) \/ EndsWith(name, <<".", "C", "S", "V">>)

ToLower(ch) ==
    CASE ch = "C" -> "c" [] ch = "S" -> "s" [] ch = "V" -> "v"
      [] ch = "D" -> "d" [] ch = "A" -> "a" [] ch = "T" -> "t"
      [] OTHER -> ch

LowerName(name) == [i \in 1..Len(name) |-> ToLower(name[i])]

Bom == <<239, 187, 191>>
Replacement == 65533

IsCont(bytes, i) == i <= Len(bytes) /\ bytes[i] >= 128 /\ bytes[i] <= 191
\* the range the byte after the lead byte b must lie in
SecondOk(bytes, i, b) ==
    /\ i <= Len(bytes)
    /\ bytes[i] >= (IF b = 224 THEN 160 ELSE IF b = 240 THEN 144 ELSE 128)
    /\ bytes[i] <= (IF b = 237 THEN 159 ELSE IF b = 244 THEN 143 ELSE 191)

\* The UTF-8 decoder from byte i on: an ill-formed sequence gives U+FFFD and
\* decoding resumes at the byte that broke it.
RECURSIVE DecodeFrom(_, _)
DecodeFrom(bytes, i) ==
    IF i > Len(bytes) THEN <<>>
    ELSE LET b == bytes[i] IN
         IF b < 128 THEN <<b>> \o DecodeFrom(bytes, i + 1)
         ELSE IF b >= 194 /\ b <= 223
         THEN IF IsCont(bytes, i + 1)
              THEN <<(b - 192) * 64 + (bytes[i + 1] - 128)>> \o DecodeFrom(bytes, i + 2)
              ELSE <<Replacement>> \o DecodeFrom(bytes, i + 1)
         ELSE IF b >= 224 /\ b <= 239
         THEN IF ~SecondOk(bytes, i + 1, b)
              THEN <<Replacement>> \o DecodeFrom(bytes, i + 1)
              ELSE IF ~IsCont(bytes, i + 2)
              THEN <<Replacement>> \o DecodeFrom(bytes, i + 2)
              ELSE <<(b - 224) * 4096 + (bytes[i + 1] - 128) * 64 + (bytes[i + 2] - 128)>>
                      \o DecodeFrom(bytes, i + 3)
         ELSE IF b >= 240 /\ b <= 244
         THEN IF ~SecondOk(bytes, i + 1, b)
              THEN <<Replacement>> \o DecodeFrom(bytes, i + 1)
              ELSE IF ~IsCont(bytes, i + 2)
              THEN <<Replacement>> \o DecodeFrom(bytes, i + 2)
              ELSE IF ~IsCont(bytes, i + 3)
              THEN <<Replacement>> \o DecodeFrom(bytes, i + 3)
              ELSE <<(b - 240) * 262144 + (bytes[i + 1] - 128) * 4096
                       + (bytes[i + 2] - 128) * 64 + (bytes[i + 3] - 128)>>
                      \o DecodeFrom(bytes, i + 4)
         ELSE <<Replacement>> \o DecodeFrom(bytes, i + 1)

\* file.text(): UTF-8 decode, which drops a leading byte-order mark
FileText(bytes) ==
    IF Len(bytes) >= 3 /\ SubSeq(bytes, 1, 3) = Bom
    THEN DecodeFrom(bytes, 4)
    ELSE DecodeFrom(bytes, 1)

EncodePoint(cp) ==
    IF cp < 128 THEN <<cp>>
    ELSE IF cp < 2048 THEN <<192 + (cp \div 64), 128 + (cp % 64)>>
    ELSE IF cp < 65536
    THEN <<224 + (cp \div 4096), 128 + ((cp \div 64) % 64), 128 + (cp % 64)>>
    ELSE <<240 + (cp \div 262144), 128 + ((cp \div 4096) % 64),
           128 + ((cp \div 64) % 64), 128 + (cp % 64)>>

\* new TextEncoder().encode(fileText)
RECURSIVE TextEncode(_)
TextEncode(text) ==
    IF text = <<>> THEN <<>> ELSE EncodePoint(Head(text)) \o TextEncode(Tail(text))

RECURSIVE ByteSum(_)
ByteSum(bytes) == IF bytes = <<>> THEN 0 ELSE (Head(bytes) + ByteSum(Tail(bytes))) % 256

\* gzip(fileData, cb): a gzip member holding the data in one stored block:
\* magic and method, the length, the data, a checksum and the length again
GzipHeader == <<31, 139, 8>>
Gzip(data) == GzipHeader \o <<Len(data)>> \o data \o <<ByteSum(data), Len(data)>>
\* what the backend's decompression gives
Gunzip(blob) == SubSeq(blob, Len(GzipHeader) + 2, Len(GzipHeader) + 1 + blob[Len(GzipHeader) + 1])

\* A File object, or null (present = FALSE)
File(name, bytes) == [present |-> TRUE, name |-> name, bytes |-> bytes]
NoFile == [present |-> FALSE, name |-> <<>>, bytes |-> <<>>]

ReportTxt == <<"r", "e", "p", "o", "r", "t", ".", "t", "x", "t">>
DataCsv == <<"d", "a", "t", "a", ".", "c", "s", "v">>
DataUpper == <<"D", "A", "T", "A", ".", "C", "S", "V">>
DataMixed == <<"d", "a", "t", "a", ".", "C", "s", "v">>

PlainBytes == <<97, 44, 98>>
AccentBytes == <<195, 169>>
BomBytes == Bom \o <<97>>
BadBytes == <<97, 255>>

Files ==
    {NoFile, File(ReportTxt, PlainBytes), File(DataMixed, PlainBytes),
     File(DataCsv, PlainBytes), File(DataUpper, AccentBytes),
     File(DataCsv, BomBytes), File(DataCsv, BadBytes)}

\* A rejection reason: err.response?.data?.detail and err.message
Absent == "undefined"
Err(detail, message) == [detail |-> detail, message |-> message]
NoErr == Err(Absent, Absent)
ReadErr == Err(Absent, "The file could not be read")
GzipErr == Err(Absent, "invalid block type")
PostErrs ==
    {Err("Invalid CSV", "Request failed with status code 400"),
     Err(Absent, "Network Error"),
     NoErr}

\* An error message that overlooks the backend's detail.
ErrorMessageOnly(err) ==
    IF err.message \notin {Absent, ""} THEN err.message ELSE "Upload failed"

\* err.response?.data?.detail || err.message || 'Upload failed'
ErrorMessage(err) ==
    IF err.detail \notin {Absent, ""} THEN err.detail
    ELSE IF err.message \notin {Absent, ""} THEN err.message
    ELSE "Upload failed"

\* ----------------------------------------------------- the hook's state
State ==
    [logs |-> logs, progress |-> progress, total |-> total,
     percentage |-> percentage, status |-> status, error |-> error,
     wsRef |-> wsRef, reconnectTimeoutRef |-> reconnectTimeoutRef,
     statusRef |-> statusRef, shouldReconnectRef |-> shouldReconnectRef,
     sockets |-> sockets, timers |-> timers]

\* A log entry (the timestamp is left out); job is the job id of the effect
\* instance whose callback appended it (the closure that ran), kept for
\* provenance.
Entry(t, m, p, n, pct, job) ==
    [type |-> t, message |-> m, processed |-> p, total |-> n,
     percentage |-> pct, job |-> job]

\* WebSocket.close(): a connecting socket fails (error event, then close
\* event), an open socket starts the closing handshake (close event).
CloseSocket(socks, id) ==
    IF socks[id].readyState = "CONNECTING"
    THEN [socks EXCEPT ![id].readyState = "CLOSING", ![id].errDue = TRUE]
    ELSE IF socks[id].readyState = "OPEN"
         THEN [socks EXCEPT ![id].readyState = "CLOSING"]
         ELSE socks

\* A connect whose catch leaves the retry to a timer.
ConnectRetrying(h, job, ok) ==
    IF ~h.shouldReconnectRef THEN h
    ELSE IF ~ok
         THEN [h EXCEPT !.status = "disconnected",
                        !.timers = Append(h.timers,
                            [job |-> job, pending |-> TRUE, delay |-> ReconnectDelay,
                             elapsed |-> 0]),
                        !.reconnectTimeoutRef = Len(h.timers) + 1]
         ELSE [h EXCEPT !.status = "connecting",
                        !.error = Null,
                        !.sockets = Append(h.sockets,
                            [job |-> job, readyState |-> "CONNECTING",
                             opened |-> FALSE, errDue |-> FALSE, closeDue |-> FALSE]),
                        !.wsRef = Len(h.sockets) + 1]

\* connect(), lines 29-135, for the effect instance of `job`
Connect(h, job, ok) ==
    IF ~h.shouldReconnectRef THEN h
    ELSE IF ~ok
         THEN [h EXCEPT !.status = "error", !.error = "SyntaxError"]
         ELSE [h EXCEPT !.status = "connecting",
                        !.error = Null,
                        !.sockets = Append(h.sockets,
                            [job |-> job, readyState |-> "CONNECTING",
                             opened |-> FALSE, errDue |-> FALSE, closeDue |-> FALSE]),
                        !.wsRef = Len(h.sockets) + 1]

\* An onopen that starts the log afresh on every connection.
OnOpenFreshLog(h, s) ==
    IF ~h.shouldReconnectRef
    THEN [h EXCEPT !.sockets = CloseSocket(h.sockets, s)]
    ELSE [h EXCEPT !.status = "connected",
                   !.logs = <<Entry("system", "Connected to server", Undefined, Undefined,
                             Undefined, h.sockets[s].job)>>]

\* ws.onopen
OnOpen(h, s) ==
    IF ~h.shouldReconnectRef
    THEN [h EXCEPT !.sockets = CloseSocket(h.sockets, s)]
    ELSE [h EXCEPT !.status = "connected",
                   !.logs = Append(h.logs, Entry("system", "Connected to server", Undefined, Undefined,
                             Undefined, h.sockets[s].job))]

\* the close of wsRef.current at the end of the error and complete branches
CloseCurrentIfOpen(h) ==
    IF h.wsRef # 0 /\ h.sockets[h.wsRef].readyState = "OPEN"
    THEN [h EXCEPT !.sockets = CloseSocket(h.sockets, h.wsRef)]
    ELSE h

OnMessageLog(h, s, f) ==
    [h EXCEPT !.logs = Append(h.logs, Entry("log", f.message, Undefined, Undefined, Undefined, h.sockets[s].job))]

OnMessageProgress(h, s, f) ==
    [h EXCEPT !.progress = OrZero(f.processed),
              !.total = OrZero(f.total),
              !.percentage = OrZero(f.percentage),
              !.logs = Append(h.logs, Entry("progress", f.message, f.processed, f.total, f.percentage,
                        h.sockets[s].job))]

OnMessageError(h, s, f) ==
    CloseCurrentIfOpen(
        [h EXCEPT !.shouldReconnectRef = FALSE,
                  !.status = "error",
                  !.error = f.message,
                  !.logs = Append(h.logs, Entry("error", f.message, Undefined, Undefined, Undefined,
                            h.sockets[s].job))])

OnMessageComplete(h, s, f) ==
    CloseCurrentIfOpen(
        [h EXCEPT !.shouldReconnectRef = FALSE,
                  !.status = "complete",
                  !.progress = OrZero(f.processed),
                  !.total = OrElse(f.total, OrZero(f.processed)),
                  !.percentage = 100,
                  !.logs = Append(h.logs,
                      Entry("complete", f.message, f.processed,
                            OrElse(f.total, f.processed), Undefined,
                            h.sockets[s].job))])

\* An onmessage whose catch reports the frame it could not parse.
OnMessageStrict(h, s, f) ==
    CASE f.type = "log" -> OnMessageLog(h, s, f)
      [] f.type = "progress" -> OnMessageProgress(h, s, f)
      [] f.type = "error" -> OnMessageError(h, s, f)
      [] f.type = "complete" -> OnMessageComplete(h, s, f)
      [] OTHER -> [h EXCEPT !.status = "error", !.error = "Failed to parse message"]

\* ws.onmessage
OnMessage(h, s, f) ==
    CASE f.type = "log" -> OnMessageLog(h, s, f)
      [] f.type = "progress" -> OnMessageProgress(h, s, f)
      [] f.type = "error" -> OnMessageError(h, s, f)
      [] f.type = "complete" -> OnMessageComplete(h, s, f)
      [] OTHER -> h

\* ws.onerror
OnError(h, s) ==
    [h EXCEPT !.status = "error", !.error = "WebSocket connection error"]

\* ws.onclose
OnClose(h, s) ==
    IF h.shouldReconnectRef /\ h.statusRef # "complete" /\ h.statusRef # "error"
    THEN [h EXCEPT !.status = "disconnected",
                   !.timers = Append(h.timers,
                       [job |-> h.sockets[s].job, pending |-> TRUE,
                        delay |-> ReconnectDelay, elapsed |-> 0]),
                   !.reconnectTimeoutRef = Len(h.timers) + 1]
    ELSE [h EXCEPT !.status = "disconnected"]

\* the callback given to setTimeout
TimerCallback(h, t, ok) ==
    IF h.shouldReconnectRef THEN Connect(h, h.timers[t].job, ok) ELSE h

\* A cleanup that records the disconnect in the log instead of clearing it.
CleanupLogsDisconnect(h) ==
    LET t == h.reconnectTimeoutRef
        w == h.wsRef
    IN [h EXCEPT !.shouldReconnectRef = FALSE,
                 !.timers = IF t # 0
                            THEN [h.timers EXCEPT ![t].pending = FALSE, ![t].elapsed = 0]
                            ELSE h.timers,
                 !.reconnectTimeoutRef = 0,
                 !.sockets = IF w # 0 THEN CloseSocket(h.sockets, w) ELSE h.sockets,
                 !.wsRef = 0,
                 !.logs = Append(h.logs, Entry("system", "Disconnected", Undefined,
                                               Undefined, Undefined, NoJob)),
                 !.progress = 0,
                 !.total = 0,
                 !.percentage = 0,
                 !.status = "disconnected"]

\* the cleanup returned by the effect
Cleanup(h) ==
    LET t == h.reconnectTimeoutRef
        w == h.wsRef
    IN [h EXCEPT !.shouldReconnectRef = FALSE,
                 !.timers = IF t # 0
                            THEN [h.timers EXCEPT ![t].pending = FALSE, ![t].elapsed = 0]
                            ELSE h.timers,
                 !.reconnectTimeoutRef = 0,
                 !.sockets = IF w # 0 THEN CloseSocket(h.sockets, w) ELSE h.sockets,
                 !.wsRef = 0,
                 !.logs = <<>>,
                 !.progress = 0,
                 !.total = 0,
                 !.percentage = 0,
                 !.status = "disconnected"]

\* the effect body for a non-null job id
Effect(h, job, ok) ==
    Connect([h EXCEPT !.shouldReconnectRef = TRUE], job, ok)

\* ------------------------------------------------------------ plumbing
\* Writes a handler's result back.  State setters of an unmounted component
\* are ignored by React; refs, sockets and timers are plain objects.
Apply(r) ==
    /\ logs' = IF mounted THEN r.logs ELSE logs
    /\ progress' = IF mounted THEN r.progress ELSE progress
    /\ total' = IF mounted THEN r.total ELSE total
    /\ percentage' = IF mounted THEN r.percentage ELSE percentage
    /\ status' = IF mounted THEN r.status ELSE status
    /\ error' = IF mounted THEN r.error ELSE error
    /\ wsRef' = r.wsRef
    /\ reconnectTimeoutRef' = r.reconnectTimeoutRef
    /\ statusRef' = r.statusRef
    /\ shouldReconnectRef' = r.shouldReconnectRef
    /\ sockets' = r.sockets
    /\ timers' = r.timers

SocketIds == 1..Len(sockets)
TimerIds == 1..Len(timers)

\* op: the step; id: its socket, timer or job; cleanup: the effect cleanup ran
\* frame: the frame a message step handled
\* file: the file a call of uploadFile was given; err: what an await of
\* uploadFile rejected with
Step(op, id) ==
    [op |-> op, id |-> id, cleanup |-> FALSE, frame |-> NoFrame, file |-> NoFile,
     err |-> NoErr]
CleanupStep(op, id, ran) == [Step(op, id) EXCEPT !.cleanup = ran]
MessageStep(f, id) == [Step(f.type, id) EXCEPT !.frame = f]
UploadStep(op, id, file, ran) == [Step(op, id) EXCEPT !.file = file, !.cleanup = ran]

Init ==
    /\ jobId = NoJob
    /\ mounted = TRUE
    /\ pc = "idle"
    /\ logs = <<>>
    /\ progress = 0
    /\ total = 0
    /\ percentage = 0
    /\ status = "disconnected"
    /\ error = Null
    /\ wsRef = 0
    /\ reconnectTimeoutRef = 0
    /\ statusRef = "disconnected"
    /\ shouldReconnectRef = TRUE
    /\ sockets = <<>>
    /\ timers = <<>>
    /\ wsUrlOk \in BOOLEAN
    /\ lastJob = 0
    /\ terminalJobs = {}
    /\ last = Step("init", 0)
    /\ uploading = FALSE
    /\ uploadError = Null
    /\ calls = <<>>

\* A failed connection fires its error event and its close event in one
\* browser task: between the two callbacks no other task runs (a render that
\* React performs synchronously may, so SyncStatusRef stays possible).
InCloseTask == \E s \in SocketIds : sockets[s].closeDue
Idle == pc = "idle" /\ ~InCloseTask

\* Room for one more socket (model bound on the sockets ever created)
CanConnectN(ns) == wsUrlOk => Len(sockets) < ns
CanConnect == CanConnectN(MaxSockets)

\* A render with a new job id and the first half of its commit: the cleanup
\* of the previous effect instance (if there is one), then the statusRef
\* effect, which stores the status this render showed.  Job ids are issued
\* by the backend, one per upload, so a non-null id is a fresh one.
\* nj, ns: the bounds on job ids and sockets of the specification
CommitJobId(j, nj, ns) ==
    /\ mounted
    /\ Idle
    /\ j # jobId
    /\ j # NoJob => (j = lastJob + 1 /\ j <= nj /\ CanConnectN(ns))
    /\ Apply([(IF jobId # NoJob THEN Cleanup(State) ELSE State)
                 EXCEPT !.statusRef = status])
    /\ jobId' = j
    /\ lastJob' = IF j # NoJob THEN j ELSE lastJob
    /\ pc' = IF j # NoJob THEN "mount" ELSE "idle"
    /\ UNCHANGED <<mounted, wsUrlOk, terminalJobs>>

\* The job id changes while the upload hook's own state stays.
SetJobIdN(j, nj, ns) ==
    /\ CommitJobId(j, nj, ns)
    /\ last' = CleanupStep("setJobId", j, jobId # NoJob)
    /\ UNCHANGED uploadVars

SetJobId(j) == SetJobIdN(j, MaxJobs, MaxSockets)

\* The second half of the commit: the effect body of the new job id.
Mount ==
    /\ pc = "mount"
    /\ Apply(Effect(State, jobId, wsUrlOk))
    /\ pc' = "idle"
    /\ last' = Step("mount", jobId)
    /\ UNCHANGED uploadVars
    /\ UNCHANGED <<jobId, mounted, wsUrlOk, lastJob, terminalJobs>>

\* The owning component unmounts: the cleanup of the current effect runs.
Unmount ==
    /\ mounted
    /\ Idle
    /\ Apply(IF jobId # NoJob THEN Cleanup(State) ELSE State)
    /\ mounted' = FALSE
    /\ last' = CleanupStep("unmount", jobId, jobId # NoJob)
    /\ UNCHANGED uploadVars
    /\ UNCHANGED <<jobId, pc, wsUrlOk, lastJob, terminalJobs>>

\* The passive effect of lines 18-20 runs for the latest render.
SyncStatusRef ==
    /\ mounted
    /\ pc = "idle"
    /\ statusRef # status
    /\ statusRef' = status
    /\ last' = Step("sync", 0)
    /\ UNCHANGED uploadVars
    /\ UNCHANGED <<jobId, mounted, pc, logs, progress, total, percentage, status,
                   error, wsRef, reconnectTimeoutRef, shouldReconnectRef,
                   sockets, timers, wsUrlOk, lastJob, terminalJobs>>

\* The handshake of socket s succeeds: readyState becomes OPEN, onopen runs.
WsOpen(s) ==
    /\ Idle
    /\ sockets[s].readyState = "CONNECTING"
    /\ (mounted /\ shouldReconnectRef) => Len(logs) < MaxLogs
    /\ Apply(OnOpen([State EXCEPT !.sockets[s].readyState = "OPEN",
                                  !.sockets[s].opened = TRUE], s))
    /\ last' = Step("open", s)
    /\ UNCHANGED uploadVars
    /\ UNCHANGED <<jobId, mounted, pc, wsUrlOk, lastJob, terminalJobs>>

\* A frame arrives on the open socket s: onmessage runs.
WsMessage(s, f) ==
    /\ Idle
    /\ sockets[s].readyState = "OPEN"
    /\ (mounted /\ f.type # "malformed") => Len(logs) < MaxLogs
    /\ Apply(OnMessage(State, s, f))
    /\ terminalJobs' = IF f.type \in {"error", "complete"}
                       THEN terminalJobs \cup {sockets[s].job}
                       ELSE terminalJobs
    /\ last' = MessageStep(f, s)
    /\ UNCHANGED uploadVars
    /\ UNCHANGED <<jobId, mounted, pc, wsUrlOk, lastJob>>

\* The connection of socket s fails (network failure, refused handshake, or
\* close() called before the handshake finished): readyState becomes CLOSED,
\* onerror runs, and the close event is due.
WsError(s) ==
    /\ Idle
    /\ \/ sockets[s].readyState \in {"CONNECTING", "OPEN"}
       \/ sockets[s].readyState = "CLOSING" /\ sockets[s].errDue
    /\ Apply(OnError([State EXCEPT !.sockets[s].readyState = "CLOSED",
                                   !.sockets[s].errDue = FALSE,
                                   !.sockets[s].closeDue = TRUE], s))
    /\ last' = Step("onerror", s)
    /\ UNCHANGED uploadVars
    /\ UNCHANGED <<jobId, mounted, pc, wsUrlOk, lastJob, terminalJobs>>

WillSchedule == shouldReconnectRef /\ statusRef # "complete" /\ statusRef # "error"

\* The close event of socket s: the peer closed an open socket, the closing
\* handshake ended, or the close event follows the error event.
WsClose(s) ==
    /\ pc = "idle"
    /\ \/ Idle /\ sockets[s].readyState = "OPEN"
       \/ Idle /\ sockets[s].readyState = "CLOSING" /\ ~sockets[s].errDue
       \/ sockets[s].readyState = "CLOSED" /\ sockets[s].closeDue
    /\ WillSchedule => Len(timers) < MaxTimers
    /\ Apply(OnClose([State EXCEPT !.sockets[s].readyState = "CLOSED",
                                   !.sockets[s].closeDue = FALSE], s))
    /\ last' = Step("onclose", s)
    /\ UNCHANGED uploadVars
    /\ UNCHANGED <<jobId, mounted, pc, wsUrlOk, lastJob, terminalJobs>>

\* One second passes.
Tick ==
    /\ Idle
    /\ \E t \in TimerIds : timers[t].pending /\ timers[t].elapsed < timers[t].delay
    /\ timers' = [t \in TimerIds |->
                    IF timers[t].pending /\ timers[t].elapsed < timers[t].delay
                    THEN [timers[t] EXCEPT !.elapsed = @ + 1]
                    ELSE timers[t]]
    /\ last' = Step("tick", 0)
    /\ UNCHANGED uploadVars
    /\ UNCHANGED <<jobId, mounted, pc, logs, progress, total, percentage, status,
                   error, wsRef, reconnectTimeoutRef, statusRef, shouldReconnectRef,
                   sockets, wsUrlOk, lastJob, terminalJobs>>

\* Timer t expires: its callback runs.
TimerFireN(t, ns) ==
    /\ Idle
    /\ timers[t].pending
    /\ timers[t].elapsed >= timers[t].delay
    /\ shouldReconnectRef => CanConnectN(ns)
    /\ Apply(TimerCallback([State EXCEPT !.timers[t].pending = FALSE,
                                         !.timers[t].elapsed = 0], t, wsUrlOk))
    /\ last' = Step("timer", t)
    /\ UNCHANGED uploadVars
    /\ UNCHANGED <<jobId, mounted, pc, wsUrlOk, lastJob, terminalJobs>>

TimerFire(t) == TimerFireN(t, MaxSockets)

Next ==
    \/ \E j \in 0..MaxJobs : SetJobId(j)
    \/ Mount
    \/ Unmount
    \/ SyncStatusRef
    \/ \E s \in SocketIds : WsOpen(s)
    \/ \E s \in SocketIds, f \in Frames : WsMessage(s, f)
    \/ \E s \in SocketIds : WsError(s)
    \/ \E s \in SocketIds : WsClose(s)
    \/ Tick
    \/ \E t \in TimerIds : TimerFire(t)

Spec == Init /\ [][Next]_vars

\* One job id whose socket delivers frames with any numbers.
NextFrames ==
    \/ \E j \in 0..1 : SetJobId(j)
    \/ Mount
    \/ Unmount
    \/ SyncStatusRef
    \/ \E s \in SocketIds : WsOpen(s)
    \/ \E s \in SocketIds, f \in WideFrames : WsMessage(s, f)
    \/ \E s \in SocketIds : WsError(s)
    \/ \E s \in SocketIds : WsClose(s)
    \/ Tick
    \/ \E t \in TimerIds : TimerFire(t)

SpecFrames == Init /\ [][NextFrames]_vars

\* Up to ChurnJobs job ids in a row; the server sends Log frames only.
NextChurn ==
    \/ \E j \in 0..ChurnJobs : SetJobIdN(j, ChurnJobs, ChurnSockets)
    \/ Mount
    \/ \E s \in SocketIds : WsOpen(s)
    \/ \E s \in SocketIds : WsMessage(s, LogFrame)
    \/ \E s \in SocketIds : WsError(s)
    \/ \E s \in SocketIds : WsClose(s)
    \/ Tick
    \/ \E t \in TimerIds : TimerFireN(t, ChurnSockets)

\* ------------------------------------------------------ useProductUpload
\* The widget passes the upload hook's jobId to useWebSocket, so a setJobId of
\* the upload hook is the job-id commit of the stream.  Each run of
\* uploadFile between two awaits is one action.

\* no value yet
Pending == -1

\* a call of uploadFile that passed validation, at its first await.
\* result: the returned value (NoJob for null)
Call(file) ==
    [file |-> file, pc |-> "read", data |-> <<>>, blob |-> <<>>, requests |-> 0,
     result |-> Pending]

\* a call that returned: its locals are gone
Return(call, result) ==
    [Call(NoFile) EXCEPT !.pc = "done", !.requests = call.requests, !.result = result]

CallIds == 1..Len(calls)
InFlight(c) == calls[c].pc # "done"

StreamUnchanged ==
    UNCHANGED <<jobId, mounted, pc, logs, progress, total, percentage, status,
                error, wsRef, reconnectTimeoutRef, statusRef, shouldReconnectRef,
                sockets, timers, wsUrlOk, lastJob, terminalJobs>>

\* setJobId(j) of the upload hook: nothing renders anew for an equal value
SetJob(j) ==
    IF j = jobId
    THEN mounted /\ Idle /\ StreamUnchanged
    ELSE CommitJobId(j, UploadJobs, UploadSockets)

\* A rejection that also clears the uploading flag.
RejectClearing(file, msg) ==
    /\ mounted
    /\ Idle
    /\ uploadError' = msg
    /\ uploading' = FALSE
    /\ UNCHANGED calls
    /\ StreamUnchanged
    /\ last' = UploadStep("reject", 0, file, FALSE)

\* uploadFile returns null right after setError(msg)
Reject(file, msg) ==
    /\ mounted
    /\ Idle
    /\ uploadError' = msg
    /\ UNCHANGED <<uploading, calls>>
    /\ StreamUnchanged
    /\ last' = UploadStep("reject", 0, file, FALSE)

\* A start of an upload that leaves the previous job id in place.
BeginKeepJob(file) ==
    /\ Len(calls) < MaxCalls
    /\ mounted
    /\ Idle
    /\ uploading' = TRUE
    /\ uploadError' = Null
    /\ StreamUnchanged
    /\ calls' = Append(calls, Call(file))
    /\ last' = UploadStep("upload", Len(calls) + 1, file, FALSE)

\* setUploading(true), setError(null), setJobId(null), then file.text()
Begin(file) ==
    /\ Len(calls) < MaxCalls
    /\ uploading' = TRUE
    /\ uploadError' = Null
    /\ SetJob(NoJob)
    /\ calls' = Append(calls, Call(file))
    /\ last' = UploadStep("upload", Len(calls) + 1, file, jobId # NoJob)

\* A call of uploadFile up to its first await or its early return.
UploadFile(file) ==
    IF ~file.present THEN Reject(file, "No file selected")
    ELSE IF ~IsCsvName(file.name) THEN Reject(file, "File must be a CSV file")
    ELSE Begin(file)

\* file.text() resolved: the text is encoded and handed to gzip
ReadDone(c) ==
    /\ mounted
    /\ Idle
    /\ calls[c].pc = "read"
    /\ calls' = [calls EXCEPT ![c].data = TextEncode(FileText(calls[c].file.bytes)),
                              ![c].pc = "gzip"]
    /\ last' = Step("readDone", c)
    /\ UNCHANGED <<uploading, uploadError>>
    /\ StreamUnchanged

\* apiClient.post('/api/upload', formData): one request is sent
ApiPost(call) == [call EXCEPT !.requests = @ + 1, !.pc = "post"]

\* gzip called back with the compressed data: the blob is posted
GzipDone(c) ==
    /\ mounted
    /\ Idle
    /\ calls[c].pc = "gzip"
    /\ calls' = [calls EXCEPT ![c] = ApiPost([calls[c] EXCEPT !.blob = Gzip(calls[c].data)])]
    /\ last' = Step("gzipDone", c)
    /\ UNCHANGED <<uploading, uploadError>>
    /\ StreamUnchanged

\* The request succeeded; resp is response.data.job_id (Undefined: the body
\* has no such field).
PostOk(c, resp) ==
    /\ calls[c].pc = "post"
    /\ resp # Undefined => resp = lastJob + 1
    /\ SetJob(IF resp = Undefined THEN NoJob ELSE resp)
    /\ uploading' = FALSE
    /\ calls' = [calls EXCEPT ![c] = Return(calls[c], resp)]
    /\ last' = CleanupStep("postOk", c, jobId # NoJob /\ resp # Undefined)
    /\ UNCHANGED uploadError

\* A catch block that sends a failed request once more.
CatchRetry(call, err) ==
    IF call.pc = "post" /\ call.requests < 2
    THEN [call EXCEPT !.requests = @ + 1]
    ELSE Return(call, NoJob)

\* the call's locals after the catch block: it returns null
Catch(call, err) == Return(call, NoJob)

\* An await of call c rejected with err: the catch block runs.
Fail(c, err, op) ==
    /\ mounted
    /\ Idle
    /\ uploadError' = ErrorMessage(err)
    /\ uploading' = FALSE
    /\ calls' = [calls EXCEPT ![c] = Catch(calls[c], err)]
    /\ last' = [Step(op, c) EXCEPT !.err = err]
    /\ StreamUnchanged

ReadFail(c) == calls[c].pc = "read" /\ Fail(c, ReadErr, "readFail")
GzipFail(c) == calls[c].pc = "gzip" /\ Fail(c, GzipErr, "gzipFail")
PostFail(c, err) == calls[c].pc = "post" /\ Fail(c, err, "postFail")

\* reset()
Reset ==
    /\ uploading' = FALSE
    /\ SetJob(NoJob)
    /\ uploadError' = Null
    /\ last' = CleanupStep("reset", 0, jobId # NoJob)
    /\ UNCHANGED calls

\* The widget: both hooks; the status channel of a job can fail, close,
\* reconnect or report an error.
NextUpload ==
    \/ \E file \in Files : UploadFile(file)
    \/ \E c \in CallIds : ReadDone(c)
    \/ \E c \in CallIds : ReadFail(c)
    \/ \E c \in CallIds : GzipDone(c)
    \/ \E c \in CallIds : GzipFail(c)
    \/ \E c \in CallIds, resp \in {Undefined} \cup (1..UploadJobs) : PostOk(c, resp)
    \/ \E c \in CallIds, err \in PostErrs : PostFail(c, err)
    \/ Reset
    \/ Mount
    \/ \E s \in SocketIds : WsOpen(s)
    \/ \E s \in SocketIds : WsMessage(s, ErrorFrame)
    \/ \E s \in SocketIds : WsError(s)
    \/ \E s \in SocketIds : WsClose(s)
    \/ Tick
    \/ \E t \in TimerIds : TimerFireN(t, UploadSockets)

SpecUpload == Init /\ [][NextUpload]_vars

SpecChurn == Init /\ [][NextChurn]_vars

TypeOK ==
    /\ jobId \in 0..ChurnJobs
    /\ status \in {"disconnected", "connecting", "connected", "complete", "error"}
    /\ statusRef \in {"disconnected", "connecting", "connected", "complete", "error"}
    /\ wsRef \in 0..Len(sockets)
    /\ reconnectTimeoutRef \in 0..Len(timers)
    /\ Len(logs) <= MaxLogs
    /\ Len(sockets) <= ChurnSockets
    /\ Len(timers) <= MaxTimers

\* ------------------------------------------------------------ vocabulary
Live(s) == sockets[s].readyState \in {"CONNECTING", "OPEN"}
LiveSockets == {s \in SocketIds : Live(s)}
PendingTimers == {t \in TimerIds : timers[t].pending}
NewTimers == (Len(timers) + 1)..Len(timers')
NewSockets == (Len(sockets) + 1)..Len(sockets')
SocketOps == {"open", "log", "progress", "error", "complete", "malformed",
              "onerror", "onclose"}
\* the stream of the current job id is running: not stopped, not unmounted
Running == mounted /\ pc = "idle" /\ jobId # NoJob

\* C1: once status is 'complete' or 'error' for a job id, no later event
\* changes it while the job id stays and the stream is not stopped.
C1_TerminalStatusIsKept ==
    [][(Running /\ status \in {"complete", "error"} /\ jobId' = jobId /\ mounted')
         => status' = status]_vars

\* C2: after a Complete or Error frame was handled for a job, no reconnect
\* timer is scheduled and no connection attempt is made for that job.
C2_NoReconnectAfterTerminalFrame ==
    [][\A j \in terminalJobs :
          /\ \A t \in NewTimers : timers'[t].job # j
          /\ \A s \in NewSockets : sockets'[s].job # j]_vars

\* C3: a close while status is 'connected', with no terminal frame and the
\* stream not stopped, schedules exactly one timer with the 3 s delay and
\* sets status 'disconnected'; a reconnect timer never fires before its
\* delay has passed, and when it fires for the running stream the status
\* becomes 'connecting'.
C3_CloseSchedulesOneReconnect ==
    [][/\ \A s \in SocketIds :
            (/\ last'.op = "onclose" /\ last'.id = s
             /\ Running /\ sockets[s].job = jobId
             /\ status = "connected" /\ jobId \notin terminalJobs)
            => /\ Len(timers') = Len(timers) + 1
               /\ timers'[Len(timers')] =
                     [job |-> jobId, pending |-> TRUE,
                      delay |-> ReconnectDelay, elapsed |-> 0]
               /\ reconnectTimeoutRef' = Len(timers')
               /\ status' = "disconnected"
       /\ \A t \in TimerIds :
            (last'.op = "timer" /\ last'.id = t)
            => /\ timers[t].elapsed >= ReconnectDelay
               /\ (Running /\ timers[t].job = jobId /\ shouldReconnectRef /\ wsUrlOk)
                    => (status = "disconnected" /\ status' = "connecting")]_vars

C5_SocketErrorWhileConnectingIsTerminal ==
    [][\A s \in SocketIds :
          (/\ last'.op = "onclose" /\ last'.id = s
           /\ Running /\ sockets[s].job = jobId
           /\ sockets[s].closeDue /\ ~sockets[s].opened)
          => Len(timers') = Len(timers)]_vars

\* C6: at most one socket is connecting or open, and while a job id is
\* current no socket of another job is connecting or open.
C6_AtMostOneLiveSocket ==
    /\ Cardinality(LiveSockets) <= 1
    /\ Running => \A s \in LiveSockets : sockets[s].job = jobId

\* C7: while a job id is current, callbacks of a socket opened for another
\* job change no state and schedule no timer and no connection attempt.
C7_StaleCallbacksChangeNothing ==
    [][(/\ Running /\ jobId' = jobId /\ mounted'
        /\ last'.op \in SocketOps
        /\ sockets[last'.id].job # jobId)
       => /\ UNCHANGED <<logs, progress, total, percentage, status, error>>
          /\ NewTimers = {} /\ NewSockets = {}]_vars

\* C8: after the cleanup ran, the do-not-reconnect flag is set, no timer is
\* pending and no socket is connecting or open.
C8_CleanupReleasesEverything ==
    last.cleanup => /\ ~shouldReconnectRef
                    /\ PendingTimers = {}
                    /\ LiveSockets = {}

\* C9: after the cleanup ran, all derived state is in its initial form.
C9_CleanupResetsDerivedState ==
    last.cleanup => /\ logs = <<>> /\ progress = 0 /\ total = 0 /\ percentage = 0
                    /\ status = "disconnected" /\ error = Null

\* C10: the cleanup is idempotent: a second run right after the first changes
\* nothing, from any state.
C10_CleanupIdempotent ==
    /\ Cleanup(Cleanup(State)) = Cleanup(State)
    /\ last.cleanup => Cleanup(State) = State

\* the cleanup just ran on a stream with a socket to close and a reconnect
\* timer to cancel
C10_Witness ==
    /\ last.cleanup
    /\ \E s \in SocketIds : sockets[s].readyState = "CLOSING"
    /\ \E t \in TimerIds : ~timers[t].pending
    /\ Cleanup(State) = State

IsPrefix(a, b) == Len(a) <= Len(b) /\ SubSeq(b, 1, Len(a)) = a
\* the step taken is a callback of a socket created for the current job id
OwnSocketStep == last'.op \in SocketOps /\ sockets[last'.id].job = jobId
\* the current job id stays and its stream is not stopped by this step
SameJobStep == Running /\ jobId' = jobId /\ mounted'
\* a Complete frame was handled for the current job id
Completed == \E i \in 1..Len(logs) : logs[i].type = "complete" /\ logs[i].job = jobId

C12_LogsAppendOnly ==
    [][SameJobStep => IsPrefix(logs, logs')]_vars

\* a socket of the current job id opened after a reconnect and its entry
\* followed the entries already in the log
C12_Witness ==
    /\ Running
    /\ last.op = "open"
    /\ sockets[last.id].job = jobId
    /\ Len(logs) >= 2
    /\ logs[Len(logs)].type = "system"

\* C13: after a Complete or Error frame was handled for the current job, no
\* further entry is appended to the log.
C13_NoEntryAfterTerminalFrame ==
    [][(SameJobStep /\ jobId \in terminalJobs) => logs' = logs]_vars

\* C14: the log is the sequence of handled events of the job's sockets: an
\* open or a Log/Progress/Complete/Error frame appends exactly one entry of
\* its kind, every other step leaves the log as it is.
C14_LogIsEventSequence ==
    [][SameJobStep =>
         IF OwnSocketStep /\ last'.op \in {"open", "log", "progress", "complete", "error"}
         THEN /\ Len(logs') = Len(logs) + 1
              /\ IsPrefix(logs, logs')
              /\ logs'[Len(logs')].type =
                    (IF last'.op = "open" THEN "system" ELSE last'.op)
         ELSE logs' = logs]_vars

\* C15: once a Complete frame was handled for the current job, the exposed
\* percentage is 100 until the stream is stopped or the job id changes.
C15_PercentageAfterComplete ==
    (Running /\ Completed) => percentage = 100

\* C16: the exposed percentage is always within [0,100].
C16_PercentageInRange ==
    0 <= percentage /\ percentage <= 100

\* C17: the snapshot is last-write-wins: a Progress frame of the job sets it
\* to the frame's values, a Complete frame to (processed, total, 100), and
\* every other step leaves it unchanged.
C17_SnapshotLastWriteWins ==
    [][SameJobStep =>
         IF OwnSocketStep /\ last'.op = "progress"
         THEN <<progress', total', percentage'>> =
                 <<last'.frame.processed, last'.frame.total, last'.frame.percentage>>
         ELSE IF OwnSocketStep /\ last'.op = "complete"
              THEN <<progress', total', percentage'>> =
                      <<last'.frame.processed, last'.frame.total, 100>>
              ELSE UNCHANGED <<progress, total, percentage>>]_vars

\* C18: a malformed frame changes nothing.
C18_MalformedFrameIgnored ==
    [][last'.op = "malformed"
         => UNCHANGED <<logs, progress, total, percentage, status, error, wsRef,
                        reconnectTimeoutRef, statusRef, shouldReconnectRef,
                        sockets, timers>>]_vars

\* a malformed frame arrived on a connected stream that already has entries
C18_Witness ==
    /\ last.op = "malformed"
    /\ status = "connected"
    /\ Len(logs) >= 1

\* C19: handling a Complete or Error frame closes the connection in the same
\* step: afterwards no socket of that job is open.
C19_TerminalFrameClosesSocket ==
    [][last'.op \in {"complete", "error"}
         => \A s \in SocketIds :
               sockets[s].job = sockets[last'.id].job
                  => sockets'[s].readyState # "OPEN"]_vars

\* C20: when the stream of a new job id makes its first connection attempt,
\* logs is empty, the snapshot is zero and the stream error is null.
C20_NewJobStartsFresh ==
    (last.op = "mount" /\ wsUrlOk)
        => /\ logs = <<>> /\ progress = 0 /\ total = 0 /\ percentage = 0
           /\ error = Null

\* ---------------------------------------------------------- upload claims
\* the step taken is a call of uploadFile with an actual file
FileStep == last'.op \in {"upload", "reject"} /\ last'.file.present
CsvSuffix == <<".", "c", "s", "v">>

\* C21: a file whose name does not end in '.csv' in any letter case is
\* rejected with the validation error; no call starts and no request is made.
C21_NonCsvRejected ==
    [][(FileStep /\ ~EndsWith(LowerName(last'.file.name), CsvSuffix))
         => /\ last'.op = "reject"
            /\ uploadError' = "File must be a CSV file"
            /\ calls' = calls]_vars

\* uploadFile was given report.txt while another upload was posting
C21_Witness ==
    /\ last.op = "reject"
    /\ last.file.present
    /\ last.file.name = ReportTxt
    /\ \E c \in CallIds : calls[c].requests = 1

\* C22: a file whose name ends in '.csv' in any letter case passes validation.
C22_AnyCaseAccepted ==
    [][(FileStep /\ EndsWith(LowerName(last'.file.name), CsvSuffix))
         => last'.op = "upload"]_vars

\* C23: uploadFile(null) sets the validation error and changes nothing else.
C23_NullFileRejected ==
    [][(last'.op \in {"upload", "reject"} /\ ~last'.file.present)
         => /\ last'.op = "reject"
            /\ uploadError' = "No file selected"
            /\ UNCHANGED <<uploading, calls, jobId, pc, sockets, timers, status,
                           logs, error>>]_vars

\* uploadFile(null) was called while a job's stream was connected and another
\* upload was under way
C23_Witness ==
    /\ last.op = "reject"
    /\ ~last.file.present
    /\ \E c \in CallIds : InFlight(c)
    /\ jobId # NoJob
    /\ status = "connected"

\* C24: the blob a call submits decompresses to the bytes of its file.
C24_RoundTrip ==
    \A c \in CallIds :
        calls[c].pc = "post" => Gunzip(calls[c].blob) = calls[c].file.bytes

\* C25: a successful response without a job id surfaces an error, leaves the
\* job id null and starts no stream.
C25_MissingJobIdIsError ==
    [][(last'.op = "postOk" /\ calls'[last'.id].result = Undefined)
         => /\ uploadError' # Null
            /\ jobId' = NoJob
            /\ pc' = "idle"
            /\ NewSockets = {}]_vars

\* the error a failed request is to surface
Surfaced(err) ==
    IF err.detail # Absent THEN err.detail
    ELSE IF err.message # Absent THEN err.message
    ELSE "Upload failed"

\* C26: a failed request surfaces the backend's detail, else the failure's
\* message, else 'Upload failed'; uploading is false and the call returns null.
C26_FailureMessage ==
    [][last'.op = "postFail"
         => /\ uploadError' = Surfaced(last'.err)
            /\ ~uploading'
            /\ calls'[last'.id].result = NoJob]_vars

\* a request failed with a backend detail while another call was under way
C26_Witness ==
    /\ last.op = "postFail"
    /\ last.err.detail = "Invalid CSV"
    /\ uploadError = "Invalid CSV"
    /\ \E c \in CallIds : InFlight(c)

FailOps == {"readFail", "gzipFail", "postFail"}

\* C27: a failed read, compression or request surfaces an error and starts no
\* stream: when the attempt ends the job id is null and the step created no
\* socket; a failed read or compression submits nothing.
C27_FailureStartsNoStream ==
    [][last'.op \in FailOps
         => /\ uploadError' # Null
            /\ jobId' = NoJob
            /\ NewSockets = {}
            /\ last'.op # "postFail" => calls'[last'.id].requests = 0]_vars

MergedError == IF uploadError # Null THEN uploadError ELSE error

\* C29: after reset the job id and the upload error are null, uploading is
\* false, the stream has no live socket and no pending timer, and the widget
\* shows status 'disconnected', percentage 0, no logs and no error.
C29_ResetClearsEverything ==
    last.op = "reset"
        => /\ jobId = NoJob /\ uploadError = Null /\ ~uploading
           /\ LiveSockets = {} /\ PendingTimers = {}
           /\ status = "disconnected" /\ percentage = 0 /\ logs = <<>>
           /\ MergedError = Null

SystemEntries(l) == Cardinality({i \in 1..Len(l) : l[i].type = "system"})

\* C30: every successful open of a socket of the job, while the stream is not
\* stopped, sets status 'connected' and appends one 'system' entry after the
\* entries collected so far; no other step changes the number of 'system'
\* entries, so it equals the number of successful opens for the job.
C30_OneSystemEntryPerOpen ==
    [][SameJobStep =>
         IF OwnSocketStep /\ last'.op = "open" /\ shouldReconnectRef
         THEN /\ status' = "connected"
              /\ Len(logs') = Len(logs) + 1
              /\ IsPrefix(logs, logs')
              /\ logs'[Len(logs')].type = "system"
         ELSE SystemEntries(logs') = SystemEntries(logs)]_vars

\* ------------------------------------------------------- further claims
\* C31: when the WebSocket constructor throws inside connect, status is
\* 'error', the stream error is the exception message, and no socket and no
\* reconnect timer exists for the job, however long one waits.
C31_ConstructorFailureIsTerminal ==
    ~wsUrlOk
        => /\ sockets = <<>>
           /\ timers = <<>>
           /\ Running => (status = "error" /\ error = "SyntaxError")

\* a job id was set and its connect caught the constructor's exception
C31_Witness ==
    /\ ~wsUrlOk
    /\ last.op = "mount"
    /\ status = "error"
    /\ error = "SyntaxError"

\* C32: while the stream is stopped (job id null), a late callback of a
\* socket leaves status, the stream error, logs and progress as they are.
C32_LateCallbacksAfterStop ==
    [][(mounted /\ jobId = NoJob /\ jobId' = NoJob /\ last'.op \in SocketOps)
         => UNCHANGED <<status, error, logs, progress>>]_vars

\* C33: at most one reconnect timer is pending, and reconnectTimeoutRef
\* refers to every pending timer.
C33_OnePendingTimerHeldByRef ==
    /\ Cardinality(PendingTimers) <= 1
    /\ \A t \in PendingTimers : reconnectTimeoutRef = t

\* C34: after a reset the job id stays null until uploadFile is called
\* again; the completion of a call that was under way sets no job id.
C34_ResetCancelsUpload ==
    [][(last.op = "reset" /\ last'.op # "upload") => jobId' = NoJob]_vars

\* C35: uploading is true exactly while a call of uploadFile that passed
\* validation has not returned.
C35_UploadingIffInFlight ==
    uploading <=> \E c \in CallIds : InFlight(c)

\* C36: once the call started last has obtained its job id and that id is
\* exposed, the response of a call started earlier does not replace it.
C36_LastStartedWins ==
    [][(/\ last'.op = "postOk"
        /\ last'.id < Len(calls)
        /\ calls'[last'.id].result >= 1
        /\ calls[Len(calls)].result >= 1
        /\ jobId = calls[Len(calls)].result)
         => jobId' = jobId]_vars

\* C37: uploading = true implies job id = null.
C37_UploadingImpliesNoJob ==
    uploading => jobId = NoJob

\* a second upload started after the first one had obtained its job id
C37_Witness ==
    /\ uploading
    /\ last.op = "upload"
    /\ last.cleanup
    /\ calls[1].result >= 1
    /\ jobId = NoJob

\* C38: the stream error is non-null only when the status is 'error'.
C38_ErrorOnlyWithErrorStatus ==
    error # Null => status = "error"
====
